---- MODULE Spec2Model ----
(***************************************************************************)
(* Model of scripts/export_bdb_to_json.py: the BerkeleyDB -> JSON exporter *)
(* of Noid4Php (main, export_bdb_to_json, show_sample, check_bsddb3).      *)
(*                                                                         *)
(* Bytes are integers 0..255, a byte string is a sequence of bytes, a text *)
(* is a sequence of Unicode code points.  The bsddb3 library and the file  *)
(* system are the environment: the outcome of every library call (open,    *)
(* cursor, first, next, the write of the destination) is chosen            *)
(* nondeterministically among the outcomes the call can have.              *)
(***************************************************************************)
EXTENDS Integers, Sequences, FiniteSets, TLC

\* ------------------------------------------------------------------ bounds

\* Largest number of records the cursor yields in one run.
MaxRecs == 2

\* Largest explicit --num-sample value tried (besides the default).
MaxSample == 1

\* How many characters longer than the display limit the long value is.
Extra == 1

\* ------------------------------------------------------- program constants

\* show_sample: values longer than this are cut for display.
TruncLen == 50

\* main: default of --num-sample.
DefaultNumSample == 10

\* The marker appended to a cut value: "..." as code points.
Ellipsis == <<46, 46, 46>>

\* ----------------------------------------------------------------- helpers

\* The sequence holding x, n times.
Rep(x, n) == [i \in 1 .. n |-> x]

Range(s) == { s[i] : i \in DOMAIN s }

\* ---------------------------------------------------------------- decoding

IsCont(b) == b >= 128 /\ b <= 191

\* Length of the UTF-8 sequence starting at bs[i] when it is well formed
\* (Python's strict decoder: no overlong forms, no surrogates, at most
\* U+10FFFF), and 0 when it is not.
Utf8SeqLen(bs, i) ==
    LET b == bs[i]
        n == Len(bs)
        c1 == IF i + 1 <= n THEN bs[i + 1] ELSE 0
        c2 == IF i + 2 <= n THEN bs[i + 2] ELSE 0
        c3 == IF i + 3 <= n THEN bs[i + 3] ELSE 0
    IN  IF b < 128 THEN 1
        ELSE IF b >= 194 /\ b <= 223
             THEN IF IsCont(c1) THEN 2 ELSE 0
        ELSE IF b = 224
             THEN IF c1 >= 160 /\ c1 <= 191 /\ IsCont(c2) THEN 3 ELSE 0
        ELSE IF b = 237
             THEN IF c1 >= 128 /\ c1 <= 159 /\ IsCont(c2) THEN 3 ELSE 0
        ELSE IF b >= 225 /\ b <= 239
             THEN IF IsCont(c1) /\ IsCont(c2) THEN 3 ELSE 0
        ELSE IF b = 240
             THEN IF c1 >= 144 /\ c1 <= 191 /\ IsCont(c2) /\ IsCont(c3)
                  THEN 4 ELSE 0
        ELSE IF b >= 241 /\ b <= 243
             THEN IF IsCont(c1) /\ IsCont(c2) /\ IsCont(c3) THEN 4 ELSE 0
        ELSE IF b = 244
             THEN IF c1 >= 128 /\ c1 <= 143 /\ IsCont(c2) /\ IsCont(c3)
                  THEN 4 ELSE 0
        ELSE 0

\* The code point of the well-formed sequence of length k starting at bs[i].
Utf8CodePoint(bs, i, k) ==
    IF k = 1 THEN bs[i]
    ELSE IF k = 2 THEN (bs[i] - 192) * 64 + (bs[i + 1] - 128)
    ELSE IF k = 3 THEN (bs[i] - 224) * 4096 + (bs[i + 1] - 128) * 64
                       + (bs[i + 2] - 128)
    ELSE (bs[i] - 240) * 262144 + (bs[i + 1] - 128) * 4096
         + (bs[i + 2] - 128) * 64 + (bs[i + 3] - 128)

\* The positions of bs that hold no continuation byte, in order.  UTF-8 is
\* self-synchronising: in a well-formed byte string these are exactly the
\* positions where the decoder starts a character.
Utf8Starts(bs) ==
    SelectSeq([i \in 1 .. Len(bs) |-> i], LAMBDA i : ~IsCont(bs[i]))

\* Whether the strict decoder accepts bs: every character start begins a
\* well-formed sequence, and every continuation byte belongs to the sequence
\* of the start before it.
Utf8WellFormed(bs) ==
    \A i \in 1 .. Len(bs) :
        IF IsCont(bs[i])
        THEN \E j \in (i - 3) .. (i - 1) :
                 /\ j >= 1
                 /\ ~IsCont(bs[j])
                 /\ Utf8SeqLen(bs, j) > i - j
        ELSE Utf8SeqLen(bs, i) > 0

\* Faulty variant of Utf8Decode: every byte taken as one character (the latin-1
\* decoding applied first).
Utf8DecodeBytewise(bs) == [ok |-> TRUE, text |-> bs]

\* key_bytes.decode('utf-8'): [ok, text]; ok = FALSE is UnicodeDecodeError.
Utf8Decode(bs) ==
    IF Utf8WellFormed(bs)
    THEN LET st == Utf8Starts(bs)
         IN  [ok |-> TRUE,
              text |-> [n \in 1 .. Len(st) |->
                          Utf8CodePoint(bs, st[n], Utf8SeqLen(bs, st[n]))]]
    ELSE [ok |-> FALSE, text |-> <<>>]

\* Faulty variant of Latin1Decode: an ASCII decoder, which rejects bytes >= 0x80.
Latin1DecodeAscii(bs) ==
    IF \A i \in DOMAIN bs : bs[i] < 128
    THEN [ok |-> TRUE, text |-> bs]
    ELSE [ok |-> FALSE, text |-> <<>>]

\* key_bytes.decode('latin-1'): byte b is code point b; no byte is rejected.
Latin1Decode(bs) ==
    IF \A i \in DOMAIN bs : bs[i] >= 0 /\ bs[i] <= 255
    THEN [ok |-> TRUE, text |-> [i \in DOMAIN bs |-> bs[i]]]
    ELSE [ok |-> FALSE, text |-> <<>>]

\* The try/except of the loop body applied to record r = <<key, value>>:
\* both fields by UTF-8; if either is rejected, both by latin-1; ok = FALSE
\* is the defensive branch (the record is skipped).
DecodeRecord(r) ==
    LET k8 == Utf8Decode(r[1])
        v8 == Utf8Decode(r[2])
        k1 == Latin1Decode(r[1])
        v1 == Latin1Decode(r[2])
    IN  IF k8.ok /\ v8.ok
        THEN [ok |-> TRUE, key |-> k8.text, value |-> v8.text]
        ELSE IF k1.ok /\ v1.ok
             THEN [ok |-> TRUE, key |-> k1.text, value |-> v1.text]
             ELSE [ok |-> FALSE, key |-> <<>>, value |-> <<>>]

\* ---------------------------------------------------------------- encoding

\* The UTF-8 bytes of one code point (the destination is opened with
\* encoding='utf-8' and json.dump writes characters literally).
Utf8EncodeCp(c) ==
    IF c < 128 THEN <<c>>
    ELSE IF c < 2048 THEN <<192 + (c \div 64), 128 + (c % 64)>>
    ELSE IF c < 65536
         THEN <<224 + (c \div 4096), 128 + ((c \div 64) % 64), 128 + (c % 64)>>
    ELSE <<240 + (c \div 262144), 128 + ((c \div 4096) % 64),
           128 + ((c \div 64) % 64), 128 + (c % 64)>>

RECURSIVE Utf8Encode(_)
\* The UTF-8 bytes of a text: those of its characters, in order.
Utf8Encode(t) ==
    IF Len(t) = 0 THEN <<>>
    ELSE IF Len(t) = 1 THEN Utf8EncodeCp(t[1])
    ELSE LET h == Len(t) \div 2
         IN  Utf8Encode(SubSeq(t, 1, h)) \o Utf8Encode(SubSeq(t, h + 1, Len(t)))

\* The destination's content as json.dump(data, f, ensure_ascii=False) leaves
\* it in a file opened with encoding='utf-8': one property per entry of the
\* dict, in insertion order, each string as its UTF-8 bytes.
JsonDump(d) ==
    [i \in DOMAIN d |-> <<Utf8Encode(d[i][1]), Utf8Encode(d[i][2])>>]

\* ------------------------------------------------------------ the dict data

\* Faulty variant of DictSet: an existing key keeps its first value (setdefault).
DictSetKeepFirst(d, k, v) ==
    IF \E i \in DOMAIN d : d[i][1] = k THEN d ELSE Append(d, <<k, v>>)

\* data[key] = value on a Python dict, kept as the sequence of its items in
\* insertion order: an existing key keeps its place and takes the new value.
DictSet(d, k, v) ==
    IF \E i \in DOMAIN d : d[i][1] = k
    THEN [i \in DOMAIN d |-> IF d[i][1] = k THEN <<k, v>> ELSE d[i]]
    ELSE Append(d, <<k, v>>)

\* -------------------------------------------------------- sample's display

\* Faulty variant of Truncate: the cut keeps room for the marker inside the limit.
TruncateInside(value) ==
    IF Len(value) > TruncLen
    THEN SubSeq(value, 1, TruncLen - Len(Ellipsis)) \o Ellipsis
    ELSE value

\* if len(value) > 50: value = value[:50] + "..."
Truncate(value) ==
    IF Len(value) > TruncLen
    THEN SubSeq(value, 1, TruncLen) \o Ellipsis
    ELSE value

\* ------------------------------------------------------------------ inputs

\* The sequence s, n times over.
RepSeq(s, n) == [i \in 1 .. n * Len(s) |-> s[((i - 1) % Len(s)) + 1]]

\* Key bytes: "A"; U+00E9 in UTF-8; the byte 0xE9 alone (latin-1 for U+00E9,
\* rejected by UTF-8).
KeyBytes == { <<65>>, <<195, 169>>, <<233>> }

\* Value bytes: "B"; 0xE9 alone; "C" TruncLen times; "C" TruncLen + Extra
\* times; U+00E9 in UTF-8 often enough to pass TruncLen in bytes but not in
\* characters.
ValueBytes ==
    { <<66>>, <<233>>, Rep(67, TruncLen), Rep(67, TruncLen + Extra),
      RepSeq(<<195, 169>>, (TruncLen + Extra) \div 2 + 1) }

\* A record as the cursor returns it: the tuple (key_bytes, value_bytes).
Records == { <<k, v>> : k \in KeyBytes, v \in ValueBytes }

\* cursor.first() / cursor.next() returning None.
NoRec == <<>>

Hints == <<"BTREE", "HASH", "UNKNOWN">>

\* ------------------------------------------------------------------- state

VARIABLES
    entry,        \* "main": run from the command line; "direct": a call of export_bdb_to_json
    sample,       \* args.sample
    num_records,  \* args.num_sample
    bsddb3,       \* whether the bsddb3 module can be imported
    exists,       \* os.path.exists(bdb_path)
    pc,           \* the program's position
    fn,           \* the function running: "main", "export" or "sample"
    handle,       \* the db.DB() handle: "none", "created", "open", "closed"
    cursorSt,     \* the cursor: "none", "open", "closed"
    attempts,     \* the bdb.open calls made so far: <<hint, outcome>>
    visited,      \* the records the cursor has yielded so far
    rec,          \* the local rec
    data,         \* the local dict data
    count,        \* the local count
    errors,       \* the local errors
    shown,        \* what show_sample has printed: <<key, displayed value>>
    dest,         \* the destination file
    ret,          \* export_bdb_to_json's return value, -1 before it returns
    exitCode,     \* main's return value, -1 before it returns
    err,          \* the error raised or reported, "" when none
    closeLog      \* the close calls made so far

vars == <<entry, sample, num_records, bsddb3, exists, pc, fn, handle, cursorSt,
          attempts, visited, rec, data, count, errors, shown, dest, ret,
          exitCode, err, closeLog>>

args == <<entry, sample, num_records, bsddb3, exists>>
locals == <<rec, data, count, errors, shown>>
resources == <<handle, cursorSt, attempts, closeLog>>

Init ==
    /\ entry \in {"main", "direct"}
    /\ sample \in (IF entry = "main" THEN BOOLEAN ELSE {FALSE})
    /\ num_records \in (IF sample THEN (0..MaxSample) \cup {DefaultNumSample}
                                  ELSE {DefaultNumSample})
    /\ bsddb3 \in BOOLEAN
    /\ exists \in BOOLEAN
    /\ pc = IF entry = "main" THEN "main_prereq" ELSE "import"
    /\ fn = IF entry = "main" THEN "main" ELSE "export"
    /\ handle = "none"
    /\ cursorSt = "none"
    /\ attempts = <<>>
    /\ visited = <<>>
    /\ rec = NoRec
    /\ data = <<>>
    /\ count = 0
    /\ errors = 0
    /\ shown = <<>>
    /\ dest = [state |-> "untouched", content |-> <<>>]
    /\ ret = -1
    /\ exitCode = -1
    /\ err = ""
    /\ closeLog = <<>>

\* Faulty variant of Raise: main's except clauses swallow the error and return 0.
RaiseSwallowed(kind) ==
    /\ err' = kind
    /\ IF entry = "main"
       THEN pc' = "exit" /\ exitCode' = 0
       ELSE pc' = "raised" /\ exitCode' = exitCode

\* An exception of kind `kind` leaves the running function: main's except
\* clauses report it and return 1; a direct caller receives it.
Raise(kind) ==
    /\ err' = kind
    /\ IF entry = "main"
       THEN pc' = "exit" /\ exitCode' = 1
       ELSE pc' = "raised" /\ exitCode' = exitCode

\* ----------------------------------------------------------------- main

\* main: if not check_bsddb3(): return 1
MainCheckBsddb3 ==
    /\ pc = "main_prereq"
    /\ IF bsddb3
       THEN pc' = "main_exists" /\ UNCHANGED <<exitCode, err>>
       ELSE pc' = "exit" /\ exitCode' = 1 /\ err' = "PrerequisiteMissing"
    /\ UNCHANGED <<args, fn, resources, visited, locals, dest, ret>>

\* main: if not os.path.exists(args.bdb_file): ... return 1
MainCheckExists ==
    /\ pc = "main_exists"
    /\ IF exists
       THEN pc' = "main_dispatch" /\ UNCHANGED <<exitCode, err>>
       ELSE pc' = "exit" /\ exitCode' = 1 /\ err' = "NotFound"
    /\ UNCHANGED <<args, fn, resources, visited, locals, dest, ret>>

\* main: the call of show_sample (sample mode) or of export_bdb_to_json.
MainDispatch ==
    /\ pc = "main_dispatch"
    /\ fn' = IF sample THEN "sample" ELSE "export"
    /\ pc' = "import"
    /\ UNCHANGED <<args, resources, visited, locals, dest, ret, exitCode, err>>

\* main: return 0 after the called function returned.
MainReturn ==
    /\ pc = "main_ok"
    /\ pc' = "exit"
    /\ exitCode' = 0
    /\ UNCHANGED <<args, fn, resources, visited, locals, dest, ret, err>>

\* ------------------------------------------- export_bdb_to_json, show_sample

\* import bsddb3.db as db
Import ==
    /\ pc = "import"
    /\ IF bsddb3
       THEN /\ pc' = IF fn = "export" THEN "exists" ELSE "create"
            /\ UNCHANGED <<exitCode, err>>
       ELSE Raise("ImportError")
    /\ UNCHANGED <<args, fn, resources, visited, locals, dest, ret>>

\* Faulty variant of ExportCheckExists: the existence of the source is not checked.
ExportNoCheckExists ==
    /\ pc = "exists"
    /\ pc' = "create"
    /\ UNCHANGED <<args, fn, resources, visited, locals, dest, ret, exitCode,
                   err>>

\* export_bdb_to_json: if not os.path.exists(bdb_path): raise FileNotFoundError
ExportCheckExists ==
    /\ pc = "exists"
    /\ IF exists
       THEN pc' = "create" /\ UNCHANGED <<exitCode, err>>
       ELSE Raise("NotFound")
    /\ UNCHANGED <<args, fn, resources, visited, locals, dest, ret>>

\* bdb = db.DB()
CreateHandle ==
    /\ pc = "create"
    /\ handle' = "created"
    /\ pc' = "open_btree"
    /\ UNCHANGED <<args, fn, cursorSt, attempts, closeLog, visited, locals,
                   dest, ret, exitCode, err>>

\* Faulty variant of OpenResult: the handlers catch every DBError, not only
\* DBInvalidArgError.
OpenResultAnyError(hint, outcome, onInval) ==
    /\ attempts' = Append(attempts, <<hint, outcome>>)
    /\ IF outcome = "ok"
       THEN /\ handle' = "open"
            /\ pc' = "cursor"
            /\ UNCHANGED <<exitCode, err>>
       ELSE /\ handle' = handle
            /\ IF onInval # ""
               THEN pc' = onInval /\ UNCHANGED <<exitCode, err>>
               ELSE Raise("OpenFailed")

\* What one bdb.open(bdb_path, None, hint, db.DB_RDONLY) leads to: it
\* succeeds, or raises DBInvalidArgError (control goes to the handler at
\* `onInval`; with no handler, "", the exception leaves the function), or
\* raises another DBError, which no handler of the chain catches.
OpenResult(hint, outcome, onInval) ==
    /\ attempts' = Append(attempts, <<hint, outcome>>)
    /\ IF outcome = "ok"
       THEN /\ handle' = "open"
            /\ pc' = "cursor"
            /\ UNCHANGED <<exitCode, err>>
       ELSE /\ handle' = handle
            /\ IF outcome = "inval" /\ onInval # ""
               THEN pc' = onInval /\ UNCHANGED <<exitCode, err>>
               ELSE Raise("OpenFailed")

OpenOutcomes == {"ok", "inval", "err"}

\* try: bdb.open(..., db.DB_BTREE, ...) except db.DBInvalidArgError:
OpenBtree ==
    /\ pc = "open_btree"
    /\ \E outcome \in OpenOutcomes : OpenResult(Hints[1], outcome, "open_hash")
    /\ UNCHANGED <<args, fn, cursorSt, closeLog, visited, locals, dest, ret>>

\*   try: bdb.open(..., db.DB_HASH, ...) except db.DBInvalidArgError:
OpenHash ==
    /\ pc = "open_hash"
    /\ \E outcome \in OpenOutcomes : OpenResult(Hints[2], outcome, "open_unknown")
    /\ UNCHANGED <<args, fn, cursorSt, closeLog, visited, locals, dest, ret>>

\*     bdb.open(..., db.DB_UNKNOWN, ...)
OpenUnknown ==
    /\ pc = "open_unknown"
    /\ \E outcome \in OpenOutcomes : OpenResult(Hints[3], outcome, "")
    /\ UNCHANGED <<args, fn, cursorSt, closeLog, visited, locals, dest, ret>>

\* cursor = bdb.cursor()
OpenCursor ==
    /\ pc = "cursor"
    /\ \/ /\ cursorSt' = "open"
          /\ pc' = "first"
          /\ UNCHANGED <<exitCode, err>>
       \/ /\ cursorSt' = cursorSt
          /\ Raise("DBError")
    /\ UNCHANGED <<args, fn, handle, attempts, closeLog, visited, locals,
                   dest, ret>>

\* cursor.first() and cursor.next(): the next record of the database, None
\* at its end, or a DBError.  `to` is the position after the call.  The
\* cursor walks every key/data pair, so a database that stores several data
\* items under one key yields that key several times.
CursorGet(to) ==
    \/ /\ Len(visited) < MaxRecs
       /\ \E r \in Records :
            /\ rec' = r
            /\ visited' = Append(visited, r)
       /\ pc' = to
       /\ UNCHANGED <<exitCode, err>>
    \/ /\ rec' = NoRec
       /\ visited' = visited
       /\ pc' = to
       /\ UNCHANGED <<exitCode, err>>
    \/ /\ rec' = rec
       /\ visited' = visited
       /\ Raise("DBError")

\* rec = cursor.first(); count = 0; errors = 0
CursorFirst ==
    /\ pc = "first"
    /\ CursorGet("loop")
    /\ UNCHANGED <<args, fn, resources, data, count, errors, shown, dest, ret>>

\* Faulty variant of NextCount: the count taken from the size of the dict.
NextCountDistinct(c, d) == Len(d)

\* count += 1, after data[key] = value left the dict as d.
NextCount(c, d) == c + 1

\* Faulty variant of ExportWrite: the destination is also written while the scan is
\* still going on.
ExportWriteEarly ==
    /\ fn = "export"
    /\ pc \in {"loop", "write"}
    /\ dest' = [state |-> IF pc = "write" THEN "written" ELSE "partial",
                content |-> JsonDump(data)]
    /\ pc' = IF pc = "write" THEN "return" ELSE pc
    /\ UNCHANGED <<args, fn, resources, visited, locals, ret, exitCode, err>>

\* export_bdb_to_json: one iteration of `while rec:`.
ExportStep ==
    /\ pc = "loop"
    /\ fn = "export"
    /\ rec # NoRec
    /\ LET d == DecodeRecord(rec)
       IN  IF d.ok
           THEN /\ data' = DictSet(data, d.key, d.value)
                /\ count' = NextCount(count, DictSet(data, d.key, d.value))
                /\ errors' = errors
           ELSE /\ errors' = errors + 1
                /\ UNCHANGED <<data, count>>
    /\ CursorGet("loop")
    /\ UNCHANGED <<args, fn, resources, shown, dest, ret>>

\* show_sample: the decoding of one record; ok = FALSE is an exception of
\* the unguarded latin-1 decoding.
SampleDecode(r) ==
    LET k8 == Utf8Decode(r[1])
        v8 == Utf8Decode(r[2])
        k1 == Latin1Decode(r[1])
        v1 == Latin1Decode(r[2])
    IN  IF k8.ok /\ v8.ok
        THEN [ok |-> TRUE, key |-> k8.text, value |-> v8.text]
        ELSE [ok |-> k1.ok /\ v1.ok, key |-> k1.text, value |-> v1.text]

\* show_sample: one iteration of `while rec and count < num_records:`.
SampleStep ==
    /\ pc = "loop"
    /\ fn = "sample"
    /\ rec # NoRec
    /\ count < num_records
    /\ LET d == SampleDecode(rec)
       IN  IF d.ok
           THEN /\ shown' = Append(shown, <<d.key, Truncate(d.value)>>)
                /\ count' = count + 1
                /\ CursorGet("loop")
           ELSE /\ UNCHANGED <<shown, count, rec, visited>>
                /\ Raise("UnicodeDecodeError")
    /\ UNCHANGED <<args, fn, resources, data, errors, dest, ret>>

\* The loop has ended: cursor.close()
CloseCursor ==
    /\ pc = "loop"
    /\ \/ rec = NoRec
       \/ fn = "sample" /\ count >= num_records
    /\ cursorSt' = "closed"
    /\ closeLog' = Append(closeLog, "cursor")
    /\ pc' = "close_db"
    /\ UNCHANGED <<args, fn, handle, attempts, visited, locals, dest, ret,
                   exitCode, err>>

\* bdb.close()
CloseDb ==
    /\ pc = "close_db"
    /\ handle' = "closed"
    /\ closeLog' = Append(closeLog, "handle")
    /\ pc' = IF fn = "export" THEN "write" ELSE "return"
    /\ UNCHANGED <<args, fn, cursorSt, attempts, visited, locals, dest, ret,
                   exitCode, err>>

\* export_bdb_to_json: with open(json_path, 'w', encoding='utf-8') as f:
\* json.dump(data, f, ensure_ascii=False, indent=2).  The open may fail (the
\* file is left as it was); the write may fail part way.
ExportWrite ==
    /\ pc = "write"
    /\ \/ /\ dest' = [state |-> "written", content |-> JsonDump(data)]
          /\ pc' = "return"
          /\ UNCHANGED <<exitCode, err>>
       \/ /\ dest' = dest
          /\ Raise("WriteFailed")
       \/ /\ \E n \in 0 .. Len(data) :
               dest' = [state |-> "partial",
                        content |-> SubSeq(JsonDump(data), 1, n)]
          /\ Raise("WriteFailed")
    /\ UNCHANGED <<args, fn, resources, visited, locals, ret>>

\* export_bdb_to_json: return count; show_sample: the end of the function.
Return ==
    /\ pc = "return"
    /\ ret' = IF fn = "export" THEN count ELSE ret
    /\ pc' = IF entry = "main" THEN "main_ok" ELSE "returned"
    /\ UNCHANGED <<args, fn, resources, visited, locals, dest, exitCode, err>>

Next ==
    \/ MainCheckBsddb3
    \/ MainCheckExists
    \/ MainDispatch
    \/ MainReturn
    \/ Import
    \/ ExportCheckExists
    \/ CreateHandle
    \/ OpenBtree
    \/ OpenHash
    \/ OpenUnknown
    \/ OpenCursor
    \/ CursorFirst
    \/ ExportStep
    \/ SampleStep
    \/ CloseCursor
    \/ CloseDb
    \/ ExportWrite
    \/ Return

Spec == Init /\ [][Next]_vars

\* The run is over: main has returned, or the function called directly has
\* returned or raised.
Terminated == pc \in {"exit", "returned", "raised"}

\* ------------------------------------------------------------ properties

\* Both fields of record r are well-formed UTF-8.
CleanText(r) == Utf8Decode(r[1]).ok /\ Utf8Decode(r[2]).ok

\* No two records the cursor yielded have the same key bytes.
DistinctKeys == \A i, j \in DOMAIN visited :
                    i # j => visited[i][1] # visited[j][1]

\* The scan of export_bdb_to_json has ended: every yielded record was handled.
ScanEnded == fn = "export" /\ cursorSt = "closed"

\* The records the cursor yielded, each with its place and its decoding.
Decoded == { <<i, DecodeRecord(visited[i])>> : i \in DOMAIN visited }

\* Whether p is the last of the decoded records D that has its key.
IsLast(p, D) == \A q \in D : (q[2].ok /\ q[2].key = p[2].key) => q[1] <= p[1]

\* C1 as stated: for any source database whose keys and values are all valid
\* UTF-8, the written JSON object has exactly one property per source record,
\* each holding the bytes of that record's key and value.
C1_RoundTripAnyDatabase ==
    (dest.state = "written" /\ \A i \in DOMAIN visited : CleanText(visited[i]))
    => /\ Len(dest.content) = Len(visited)
       /\ Range(dest.content) = Range(visited)

\* C1 amended: the same, for a source database that in addition holds no
\* two records with the same key bytes.
C1_RoundTrip ==
    (/\ dest.state = "written"
     /\ \A i \in DOMAIN visited : CleanText(visited[i])
     /\ DistinctKeys)
    => /\ Len(dest.content) = Len(visited)
       /\ Range(dest.content) = Range(visited)

C1_Witness ==
    /\ dest.state = "written"
    /\ Len(visited) >= 2
    /\ \A i \in DOMAIN visited : CleanText(visited[i])
    /\ DistinctKeys
    /\ \E i \in DOMAIN visited : Len(visited[i][1]) > 1

\* C2: when two or more of the records the cursor yielded decode to the same
\* key text, the export set holds exactly one entry for that text, and its
\* value is the decoded value of the last of them.
C2_DuplicateKeyOverwrite ==
    ScanEnded =>
        LET D == Decoded
        IN  \A p \in D :
                (/\ p[2].ok
                 /\ IsLast(p, D)
                 /\ \E q \in D : q[1] # p[1] /\ q[2].ok /\ q[2].key = p[2].key)
                => /\ Cardinality({ n \in DOMAIN data :
                                       data[n][1] = p[2].key }) = 1
                   /\ \A n \in DOMAIN data :
                         data[n][1] = p[2].key => data[n][2] = p[2].value

C2_Witness ==
    /\ ScanEnded
    /\ LET D == Decoded
       IN  \E p, q \in D :
              /\ p[1] < q[1]
              /\ visited[p[1]][1] # visited[q[1]][1]
              /\ p[2].key = q[2].key
              /\ p[2].value # q[2].value

\* C3: the count export_bdb_to_json returns is the number of records the
\* cursor yielded minus the number skipped, every decoded record counted once
\* even when its key repeats an earlier one.
C3_ReturnCount ==
    ret # -1 =>
        /\ ret + errors = Len(visited)
        /\ ret = Cardinality({ p \in Decoded : p[2].ok })

C3_Witness ==
    /\ ret = 2
    /\ Len(data) = 1

\* C4: the open attempts are made in the order BTREE, HASH, UNKNOWN; a hint
\* is tried only after every earlier attempt failed with the invalid-argument
\* condition; so BTREE failing that way and HASH succeeding is the whole
\* chain.
C4_OpenHintOrder ==
    /\ Len(attempts) <= Len(Hints)
    /\ \A i \in DOMAIN attempts :
          /\ attempts[i][1] = Hints[i]
          /\ \A j \in 1 .. (i - 1) : attempts[j][2] = "inval"
    /\ (/\ Len(attempts) >= 2
        /\ attempts[1] = <<"BTREE", "inval">>
        /\ attempts[2] = <<"HASH", "ok">>)
       => Len(attempts) = 2 /\ handle # "created"

C4_Witness ==
    /\ Terminated
    /\ attempts = << <<"BTREE", "inval">>, <<"HASH", "ok">> >>

\* C5: when export_bdb_to_json or show_sample has ended, normally or by an
\* error, every handle created and every cursor opened has been closed, the
\* cursor before the handle.
C5_ResourcesReleased ==
    Terminated =>
        /\ handle \in {"none", "closed"}
        /\ cursorSt \in {"none", "closed"}
        /\ closeLog \in {<<>>, <<"handle">>, <<"cursor", "handle">>}

\* C6 as stated: when the source path does not exist the run fails with
\* NotFound before any handle is created or any open attempted, main
\* returns 1, and the destination is left alone.
C6_MissingSourceNotFound ==
    ~exists =>
        /\ handle = "none" /\ attempts = <<>> /\ dest.state = "untouched"
        /\ Terminated =>
              /\ err = "NotFound"
              /\ entry = "main" => exitCode = 1

\* C6 amended: when the source path does not exist the run fails before any
\* handle is created or any open attempted, main returns 1 and the
\* destination is left alone; the error is NotFound when bsddb3 can be
\* imported, and the missing prerequisite otherwise.
C6_MissingSource ==
    ~exists =>
        /\ handle = "none" /\ attempts = <<>> /\ dest.state = "untouched"
        /\ Terminated =>
              /\ ret = -1
              /\ entry = "main" => exitCode = 1
              /\ bsddb3 => err = "NotFound"
              /\ ~bsddb3 => err \in {"PrerequisiteMissing", "ImportError"}

C6_Witness ==
    /\ ~exists
    /\ entry = "direct"
    /\ pc = "raised"
    /\ err = "NotFound"

\* C7: main returns 1 whenever a failure occurred and 0 only when the export
\* or the sample ran to completion; with bsddb3 missing, main returns
\* before anything touches a file.
C7_ExitCodes ==
    entry = "main" =>
        /\ pc = "exit" <=> exitCode \in {0, 1}
        /\ err # "" => exitCode = 1
        /\ exitCode = 1 => err # ""
        /\ exitCode = 0 =>
              /\ closeLog = <<"cursor", "handle">>
              /\ sample => fn = "sample" /\ dest.state = "untouched"
              /\ ~sample => fn = "export" /\ dest.state = "written"
                            /\ ret = count
        /\ ~bsddb3 =>
              /\ pc \in {"main_prereq", "exit"}
              /\ handle = "none" /\ attempts = <<>>
              /\ dest.state = "untouched"

C7_Witness ==
    /\ entry = "main"
    /\ exitCode = 1
    /\ err = "WriteFailed"

\* C8: every record that UTF-8 rejects is decoded by latin-1, so no record
\* is skipped: the error counter stays 0 and every record the cursor yields
\* is inserted into the export set.
C8_FallbackNeverFails ==
    /\ errors = 0
    /\ \A i \in DOMAIN visited :
          ~CleanText(visited[i]) =>
              Latin1Decode(visited[i][1]).ok /\ Latin1Decode(visited[i][2]).ok
    /\ ScanEnded =>
          /\ count = Len(visited)
          /\ \A p \in Decoded :
                \E n \in DOMAIN data : data[n][1] = p[2].key

C8_Witness ==
    /\ ScanEnded
    /\ Len(visited) >= 2
    /\ \E i \in DOMAIN visited : ~CleanText(visited[i])

\* C9: show_sample displays a value longer than 50 characters as its first
\* 50 characters followed by "...", and a shorter one unchanged; the export
\* writes the whole value.
C9_SampleTruncation ==
    /\ fn = "sample" =>
          /\ Len(shown) = count
          /\ \A i \in DOMAIN shown :
                LET v == DecodeRecord(visited[i]).value
                    s == shown[i][2]
                IN  IF Len(v) > TruncLen
                    THEN /\ Len(s) = TruncLen + 3
                         /\ SubSeq(s, 1, TruncLen) = SubSeq(v, 1, TruncLen)
                         /\ SubSeq(s, TruncLen + 1, TruncLen + 3) = <<46, 46, 46>>
                    ELSE s = v
    /\ dest.state = "written" =>
          LET D == Decoded
          IN  \A p \in D :
                  IsLast(p, D) =>
                      <<Utf8Encode(p[2].key), Utf8Encode(p[2].value)>>
                          \in Range(dest.content)

C9_Witness ==
    /\ fn = "sample"
    /\ \E i \in DOMAIN shown :
          /\ Len(DecodeRecord(visited[i]).value) > TruncLen
          /\ Len(shown[i][2]) = TruncLen + 3

\* C10: the destination is opened for writing only after the cursor is
\* exhausted and the cursor and the handle are closed; when an open attempt
\* or a cursor step fails the destination is left alone, and what is written
\* never comes from a partial scan.
C10_WriteAfterScan ==
    /\ dest.state # "untouched" =>
          /\ rec = NoRec
          /\ closeLog = <<"cursor", "handle">>
          /\ cursorSt = "closed" /\ handle = "closed"
          /\ count + errors = Len(visited)
          /\ \E n \in 0 .. Len(data) :
                dest.content = SubSeq(JsonDump(data), 1, n)
    /\ err \in {"OpenFailed", "DBError"} => dest.state = "untouched"

C10_Witness ==
    /\ dest.state = "written"
    /\ Len(visited) >= 2

====
